---- MODULE Spec2Model ----
(***************************************************************************)
(* Model of src/main.py: a configuration-driven data-quality monitor.      *)
(*                                                                         *)
(*   build_expectation_function   rule -> closure -> one check invocation  *)
(*   load_config_from_snowflake   connect, query (or fallback), close,     *)
(*                                group the rows by table                  *)
(*   monitor_all_tables           one pass over the tables and their rules *)
(*                                                                         *)
(* Python values are encoded as follows.                                   *)
(*   a str or list value inside a params dict : <<tag, items>>             *)
(*   a params value (dict or None)            : [none, d]                  *)
(*   a column_name cell (str or NULL)         : [null, name]               *)
(*   a params_json cell (text or NULL)        : [null, text], text being   *)
(*                                              the sequence of JSON tokens*)
(*   a table name                             : a sequence of characters,  *)
(*                                              so that lower() is computed*)
(***************************************************************************)
EXTENDS Integers, Sequences, FiniteSets, TLC

VARIABLES
    \* ---- build_expectation_function and the closure it returns
    rpc,            \* "start" | "built" | "raised"
    rule,           \* the closure returned for a rule
    calls,          \* invocations received by the validator the closure is applied to
    applications,   \* times the closure has been applied
    \* ---- the program run
    pc,             \* position of the run in monitor_all_tables / the loader
    dbRows,         \* enabled rows of TABLE_VALIDATION_CONFIG in the warehouse
    suites,         \* expectation-suite store of the context: name -> content
    conn,           \* "unopened" | "open" | "closed"
    df,             \* the DataFrame of the loader
    rowIdx,         \* next row of df.iterrows()
    grouped,        \* the defaultdict, as an insertion-ordered list of items
    tIdx,           \* position in expectations_by_table.items()
    rIdx,           \* position in expectation_functions
    validator,      \* the validator of the current table
    assets,         \* asset names attached to the datasource
    checkpoints,    \* checkpoint names of the context
    trace,          \* every external call made so far, in order
    failedAt        \* the step whose exception ended the run, or "none"

rvars == <<rpc, rule, calls, applications>>
pvars == <<pc, dbRows, suites, conn, df, rowIdx, grouped, tIdx, rIdx,
           validator, assets, checkpoints, trace, failedAt>>
vars == <<rpc, rule, calls, applications, pc, dbRows, suites, conn, df, rowIdx, grouped,
          tIdx, rIdx, validator, assets, checkpoints, trace, failedAt>>

(***************************************************************************)
(* Bounds                                                                  *)
(***************************************************************************)
MaxRows == 2        \* rows in the configuration table
MaxApply == 2       \* times one closure is applied

(***************************************************************************)
(* Python values                                                           *)
(***************************************************************************)
JStr(s) == <<"str", <<s>>>>
JList(l) == <<"list", l>>

EmptyDict == [k \in {} |-> JStr("")]
PNone == [none |-> TRUE, d |-> EmptyDict]
PDict(f) == [none |-> FALSE, d |-> f]
\* truth value of a params value: None and {} are false
ParamsTruthy(p) == (~p.none) /\ (DOMAIN p.d # {})

ColNull == [null |-> TRUE, name |-> ""]
Col(s) == [null |-> FALSE, name |-> s]
\* truth value of a column_name cell: None and "" are false
ColTruthy(c) == (~c.null) /\ (c.name # "")

SqlNull == [null |-> TRUE, text |-> <<>>]
Text(t) == [null |-> FALSE, text |-> t]
\* truth value of a params_json cell: None and "" are false
TextTruthy(x) == (~x.null) /\ (x.text # <<>>)

COMPLETE == JStr("COMPLETE")

(***************************************************************************)
(* build_expectation_function                                              *)
(***************************************************************************)
\* the closure captures its three arguments
build_expectation_function(expectation_type, column_name, params) ==
    [expectation_type |-> expectation_type,
     column_name |-> column_name,
     params |-> params]

\* {**params, "result_format": "COMPLETE"} if params else {...}: wrong
\* precedence, the rule's own result_format wins
full_params_rule_wins(params) ==
    IF ParamsTruthy(params)
    THEN params.d @@ [k \in {"result_format"} |-> COMPLETE]
    ELSE [k \in {"result_format"} |-> COMPLETE]

\* line 17; in f @@ g the left operand wins on common keys
full_params(params) ==
    IF ParamsTruthy(params)
    THEN [k \in {"result_format"} |-> COMPLETE] @@ params.d
    ELSE [k \in {"result_format"} |-> COMPLETE]

Invocation(method, args, kwargs) ==
    [method |-> method, args |-> args, kwargs |-> kwargs]

\* the column test made before the column_list test
expectation_func_column_first(f, methods) ==
    IF f.expectation_type \notin methods
    THEN [raised |-> TRUE, calls |-> <<>>]
    ELSE LET fp == full_params(f.params) IN
         IF ColTruthy(f.column_name)
         THEN [raised |-> FALSE,
               calls |-> <<Invocation(f.expectation_type,
                                      <<f.column_name.name>>, fp)>>]
         ELSE IF "column_list" \in DOMAIN fp
         THEN [raised |-> FALSE,
               calls |-> <<Invocation(f.expectation_type, <<>>, fp)>>]
         ELSE [raised |-> FALSE,
               calls |-> <<Invocation(f.expectation_type, <<>>, fp)>>]

\* lines 14-28: the calls made on a validator having the given methods;
\* getattr raises AttributeError when the method does not exist
expectation_func(f, methods) ==
    IF f.expectation_type \notin methods
    THEN [raised |-> TRUE, calls |-> <<>>]
    ELSE LET fp == full_params(f.params) IN
         IF "column_list" \in DOMAIN fp
         THEN [raised |-> FALSE,
               calls |-> <<Invocation(f.expectation_type, <<>>,
                    [k \in {"column_list"} |-> fp["column_list"]]
                    @@ [k \in DOMAIN fp \ {"column_list"} |-> fp[k]])>>]
         ELSE IF ColTruthy(f.column_name)
         THEN [raised |-> FALSE,
               calls |-> <<Invocation(f.expectation_type,
                                      <<f.column_name.name>>, fp)>>]
         ELSE [raised |-> FALSE,
               calls |-> <<Invocation(f.expectation_type, <<>>, fp)>>]

\* methods of the validator handle
ValidatorMethods ==
    {"expect_column_values_to_not_be_null",
     "expect_column_values_to_be_between",
     "expect_compound_columns_to_be_unique"}

ExpectationTypes == ValidatorMethods \cup {"expect_nothing_known"}

ColumnNames == {ColNull, Col(""), Col("ID")}

\* params dictionaries: each key absent or bound to one of its values
ParamKeyValues ==
    [column_list |-> {JList(<<"A", "B">>), JList(<<>>)},
     result_format |-> {JStr("BASIC"), JStr("COMPLETE")},
     min_value |-> {JStr("2025-01-01")}]

ParamDicts ==
    UNION {[ks -> UNION {ParamKeyValues[k] : k \in ks}] :
           ks \in SUBSET {"column_list", "result_format", "min_value"}}

ParamValues ==
    {PNone} \cup
    {PDict(f) : f \in {g \in ParamDicts :
                        \A k \in DOMAIN g : g[k] \in ParamKeyValues[k]}}

(***************************************************************************)
(* json.loads on a token sequence.  The grammar covered is                 *)
(*   text   ::= null | object                                              *)
(*   object ::= { } | { member (, member)* }                               *)
(*   member ::= string : value                                             *)
(*   value  ::= string | [ ] | [ string (, string)* ]                      *)
(* every other token sequence raises JSONDecodeError.                      *)
(***************************************************************************)
P(x) == <<"p", x>>      \* a punctuation token or the literal null
S(x) == <<"s", x>>      \* a string literal

ParseFail == [ok |-> FALSE, val |-> JStr(""), rest |-> <<>>]
LoadFail == [ok |-> FALSE, val |-> PNone]

RECURSIVE ParseItems(_, _)
ParseItems(toks, acc) ==
    IF Len(toks) >= 2 /\ toks[1][1] = "s"
    THEN IF toks[2] = P("]")
         THEN [ok |-> TRUE, val |-> JList(Append(acc, toks[1][2])),
               rest |-> SubSeq(toks, 3, Len(toks))]
         ELSE IF toks[2] = P(",")
         THEN ParseItems(SubSeq(toks, 3, Len(toks)), Append(acc, toks[1][2]))
         ELSE ParseFail
    ELSE ParseFail

ParseValue(toks) ==
    IF toks = <<>> THEN ParseFail
    ELSE IF toks[1][1] = "s"
    THEN [ok |-> TRUE, val |-> JStr(toks[1][2]), rest |-> Tail(toks)]
    ELSE IF toks[1] = P("[")
    THEN IF Len(toks) >= 2 /\ toks[2] = P("]")
         THEN [ok |-> TRUE, val |-> JList(<<>>),
               rest |-> SubSeq(toks, 3, Len(toks))]
         ELSE ParseItems(Tail(toks), <<>>)
    ELSE ParseFail

RECURSIVE ParseMembers(_, _)
ParseMembers(toks, acc) ==
    IF Len(toks) >= 3 /\ toks[1][1] = "s" /\ toks[2] = P(":")
    THEN LET v == ParseValue(SubSeq(toks, 3, Len(toks)))
             \* a repeated key keeps its last value
             acc2 == [k \in {toks[1][2]} |-> v.val] @@ acc
         IN  IF (~v.ok) \/ v.rest = <<>> THEN LoadFail
             ELSE IF v.rest = <<P("}")>>
             THEN [ok |-> TRUE, val |-> PDict(acc2)]
             ELSE IF v.rest[1] = P(",")
             THEN ParseMembers(Tail(v.rest), acc2)
             ELSE LoadFail
    ELSE LoadFail

json_loads(toks) ==
    IF toks = <<P("null")>> THEN [ok |-> TRUE, val |-> PNone]
    ELSE IF toks = <<P("{"), P("}")>> THEN [ok |-> TRUE, val |-> PDict(EmptyDict)]
    ELSE IF Len(toks) >= 1 /\ toks[1] = P("{")
    THEN ParseMembers(Tail(toks), EmptyDict)
    ELSE LoadFail

(***************************************************************************)
(* Names                                                                   *)
(***************************************************************************)
UpperAlpha == <<"A","B","C","D","E","F","G","H","I","J","K","L","M",
                "N","O","P","Q","R","S","T","U","V","W","X","Y","Z">>
LowerAlpha == <<"a","b","c","d","e","f","g","h","i","j","k","l","m",
                "n","o","p","q","r","s","t","u","v","w","x","y","z">>

LowerChar(c) ==
    IF \E i \in 1..26 : UpperAlpha[i] = c
    THEN LowerAlpha[CHOOSE i \in 1..26 : UpperAlpha[i] = c]
    ELSE c

\* str.lower()
Lower(s) == [i \in 1..Len(s) |-> LowerChar(s[i])]

\* line 100
suite_name(table_name) == Lower(table_name) \o <<"_","s","u","i","t","e">>

\* os.getenv("SNOWFLAKE_SCHEMA")
schema_name == <<"P","U","B">>

\* line 101
asset_name(table_name) == Lower(schema_name) \o <<"_">> \o Lower(table_name)

\* line 124
checkpoint_name(table_name) ==
    suite_name(table_name) \o <<"_","c","h","e","c","k","p","o","i","n","t">>

(***************************************************************************)
(* The configuration table and the fallback                                *)
(***************************************************************************)
Row(t, c, e, j) ==
    [table_name |-> t, column_name |-> c, expectation_type |-> e,
     params_json |-> j]

ORD == <<"O","R","D">>
Ord == <<"O","r","d">>
USR == <<"U","S","R">>
TEST_DATES == <<"T","E","S","T","_","D","A","T","E","S">>

TableNames == {ORD, Ord, USR}

JsonEmptyObject == <<P("{"), P("}")>>
JsonMinValue == <<P("{"), S("min_value"), P(":"), S("2025-01-01"), P("}")>>
JsonColumnList ==
    <<P("{"), S("column_list"), P(":"), P("["), S("A"), P(","), S("B"),
      P("]"), P("}")>>
JsonTruncated == <<P("{"), S("min_value")>>

\* rows the configuration table may hold
RowSet ==
    {Row(t, Col("ID"), "expect_column_values_to_not_be_null",
         Text(JsonEmptyObject)) : t \in {ORD, Ord}}
    \cup
    {Row(ORD, Col("ID"), "expect_column_values_to_not_be_null", SqlNull)}
    \cup
    {Row(ORD, Col("ID"), "expect_column_values_to_be_between", Text(j)) :
        j \in {<<>>, JsonMinValue, JsonTruncated}}
    \cup
    {Row(USR, ColNull, "expect_compound_columns_to_be_unique",
         Text(JsonColumnList)),
     Row(USR, Col("ID"), "expect_nothing_known", Text(JsonEmptyObject))}

RowSeqs == UNION {[1..n -> RowSet] : n \in 0..MaxRows}

\* the fallback with its two rules in the other order
FallbackRowsSwapped ==
    <<Row(TEST_DATES, Col("EVENT_DATE"), "expect_column_values_to_be_between",
          Text(<<P("{"), S("min_value"), P(":"), S("2025-01-01"), P(","),
                 S("max_value"), P(":"), S("2025-12-02"), P("}")>>)),
      Row(TEST_DATES, Col("ID"), "expect_column_values_to_not_be_null",
          Text(JsonEmptyObject))>>

\* lines 48-63
FallbackRows ==
    <<Row(TEST_DATES, Col("ID"), "expect_column_values_to_not_be_null",
          Text(JsonEmptyObject)),
      Row(TEST_DATES, Col("EVENT_DATE"), "expect_column_values_to_be_between",
          Text(<<P("{"), S("min_value"), P(":"), S("2025-01-01"), P(","),
                 S("max_value"), P(":"), S("2025-12-02"), P("}")>>))>>

\* content of a suite left in the store by an earlier run
PreviousRun == {<<<<>>, 0>>}

SuiteNames == {suite_name(t) : t \in TableNames \cup {TEST_DATES}}

SuiteStores == UNION {[ns -> {PreviousRun}] : ns \in SUBSET SuiteNames}

(***************************************************************************)
(* The trace of external calls                                             *)
(***************************************************************************)
Event(op, t, i) == [op |-> op, t |-> t, i |-> i]
NoTable == <<>>

Log(op) == Append(trace, Event(op, NoTable, 0))

\* the items of the defaultdict
Keys(g) == {g[i][1] : i \in 1..Len(g)}
IndexOf(g, t) == CHOOSE i \in 1..Len(g) : g[i][1] = t
Get(g, t) == g[IndexOf(g, t)][2]

\* grouped[table].append(f), the new rule put in front of the list
AppendRuleInFront(g, t, f) ==
    IF t \in Keys(g)
    THEN [g EXCEPT ![IndexOf(g, t)] = <<t, <<f>> \o @[2]>>]
    ELSE Append(g, <<t, <<f>>>>)

\* lines 72-74: grouped[table].append(f); a missing key is created with an
\* empty list, and keys keep their insertion order
AppendRule(g, t, f) ==
    IF t \in Keys(g)
    THEN [g EXCEPT ![IndexOf(g, t)] = <<t, Append(@[2], f)>>]
    ELSE Append(g, <<t, <<f>>>>)

NoValidator ==
    [bound |-> FALSE, suite |-> <<>>, asset |-> <<>>, expectations |-> {},
     result |-> "none"]

(***************************************************************************)
(* load_config_from_snowflake                                              *)
(***************************************************************************)
\* lines 79, 82: get_context(), then the loader is entered
GetContext ==
    /\ pc = "get_context"
    /\ trace' = Log("get_context")
    /\ pc' = "connect"
    /\ UNCHANGED <<dbRows, suites, conn, df, rowIdx, grouped, tIdx, rIdx,
                   validator, assets, checkpoints, failedAt>>

\* lines 33-40, the connection opens
Connect ==
    /\ pc = "connect"
    /\ conn' = "open"
    /\ trace' = Log("connect")
    /\ pc' = "read_sql"
    /\ UNCHANGED <<dbRows, suites, df, rowIdx, grouped, tIdx, rIdx,
                   validator, assets, checkpoints, failedAt>>

\* lines 33-40, connect raises: the call is outside the try statement
ConnectFails ==
    /\ pc = "connect"
    /\ trace' = Log("connect_raised")
    /\ pc' = "failed"
    /\ failedAt' = "connect"
    /\ UNCHANGED <<dbRows, suites, conn, df, rowIdx, grouped, tIdx, rIdx,
                   validator, assets, checkpoints>>

\* lines 42-44
ReadSql ==
    /\ pc = "read_sql"
    /\ df' = dbRows
    /\ trace' = Log("read_sql")
    /\ pc' = "close"
    /\ UNCHANGED <<dbRows, suites, conn, rowIdx, grouped, tIdx, rIdx,
                   validator, assets, checkpoints, failedAt>>

\* the query raises and the connection is closed on the success path only
ReadSqlFailsNoClose ==
    /\ pc = "read_sql"
    /\ df' = FallbackRows
    /\ trace' = Log("read_sql_raised")
    /\ pc' = "group"
    /\ UNCHANGED <<dbRows, suites, conn, rowIdx, grouped, tIdx, rIdx,
                   validator, assets, checkpoints, failedAt>>

\* lines 45-63
ReadSqlFails ==
    /\ pc = "read_sql"
    /\ df' = FallbackRows
    /\ trace' = Log("read_sql_raised")
    /\ pc' = "close"
    /\ UNCHANGED <<dbRows, suites, conn, rowIdx, grouped, tIdx, rIdx,
                   validator, assets, checkpoints, failedAt>>

\* lines 64-65
Close ==
    /\ pc = "close"
    /\ conn' = "closed"
    /\ trace' = Log("close")
    /\ pc' = "group"
    /\ UNCHANGED <<dbRows, suites, df, rowIdx, grouped, tIdx, rIdx,
                   validator, assets, checkpoints, failedAt>>

\* lines 68-74, one row
GroupRow ==
    /\ pc = "group"
    /\ rowIdx <= Len(df)
    /\ LET row == df[rowIdx]
           loaded == IF TextTruthy(row.params_json)
                     THEN json_loads(row.params_json.text)
                     ELSE [ok |-> TRUE, val |-> PDict(EmptyDict)]
       IN  IF loaded.ok
           THEN /\ grouped' = AppendRule(grouped, row.table_name,
                       build_expectation_function(row.expectation_type,
                                                  row.column_name, loaded.val))
                /\ rowIdx' = rowIdx + 1
                /\ trace' = Append(trace, Event("build_expectation_function",
                                                row.table_name, rowIdx))
                /\ UNCHANGED <<pc, failedAt>>
           ELSE /\ pc' = "failed"
                /\ failedAt' = "json_loads"
                /\ trace' = Append(trace, Event("json_loads_raised",
                                                row.table_name, rowIdx))
                /\ UNCHANGED <<grouped, rowIdx>>
    /\ UNCHANGED <<dbRows, suites, conn, df, tIdx, rIdx, validator, assets,
                   checkpoints>>

\* line 75, then lines 85-97 of the caller
ReturnGrouped ==
    /\ pc = "group"
    /\ rowIdx > Len(df)
    /\ trace' = Append(Log("return_grouped"),
                       Event("add_or_update_snowflake", NoTable, 0))
    /\ pc' = "add_table_asset"
    /\ UNCHANGED <<dbRows, suites, conn, df, rowIdx, grouped, tIdx, rIdx,
                   validator, assets, checkpoints, failedAt>>

(***************************************************************************)
(* monitor_all_tables, the loop of lines 99-139                            *)
(***************************************************************************)
table_name == grouped[tIdx][1]
expectation_functions == grouped[tIdx][2]

LogT(op) == Append(trace, Event(op, table_name, 0))

InLoop == tIdx <= Len(grouped)

\* lines 100-105
AddTableAsset ==
    /\ pc = "add_table_asset"
    /\ InLoop
    /\ assets' = assets \cup {asset_name(table_name)}
    /\ trace' = LogT("add_table_asset")
    /\ pc' = "get_expectation_suite"
    /\ UNCHANGED <<dbRows, suites, conn, df, rowIdx, grouped, tIdx, rIdx,
                   validator, checkpoints, failedAt>>

\* the suite store after add_expectation_suite is called whatever the lookup
\* returned
EnsureSuiteAlwaysAdd(store, name) ==
    [n \in DOMAIN store \cup {name} |-> IF n = name THEN {} ELSE store[n]]

\* lines 107-110: the suite store after the lookup and, when the lookup
\* raised, the creation of an empty suite
EnsureSuite(store, name) ==
    IF name \in DOMAIN store
    THEN store
    ELSE [n \in DOMAIN store \cup {name} |->
             IF n = name THEN {} ELSE store[n]]

\* lines 107-110
GetExpectationSuite ==
    /\ pc = "get_expectation_suite"
    /\ suites' = EnsureSuite(suites, suite_name(table_name))
    /\ trace' = IF suite_name(table_name) \in DOMAIN suites
                THEN LogT("get_expectation_suite")
                ELSE Append(LogT("get_expectation_suite_raised"),
                            Event("add_expectation_suite", table_name, 0))
    /\ pc' = "get_validator"
    /\ UNCHANGED <<dbRows, conn, df, rowIdx, grouped, tIdx, rIdx, validator,
                   assets, checkpoints, failedAt>>

\* lines 112-116: the validator is bound to the asset and to the stored suite
GetValidator ==
    /\ pc = "get_validator"
    /\ validator' = [bound |-> TRUE,
                     suite |-> suite_name(table_name),
                     asset |-> asset_name(table_name),
                     expectations |-> suites[suite_name(table_name)],
                     result |-> "none"]
    /\ trace' = LogT("get_validator")
    /\ rIdx' = 1
    /\ pc' = "rules"
    /\ UNCHANGED <<dbRows, suites, conn, df, rowIdx, grouped, tIdx, assets,
                   checkpoints, failedAt>>

\* the loop index after one rule, skipping the next one
NextRuleSkipping(i) == i + 2

\* line 118: the loop index after one rule
NextRule(i) == i + 1

\* lines 118-119, one rule
ApplyRule ==
    /\ pc = "rules"
    /\ rIdx <= Len(expectation_functions)
    /\ LET r == expectation_func(expectation_functions[rIdx], ValidatorMethods)
       IN  IF r.raised
           THEN /\ pc' = "failed"
                /\ failedAt' = "getattr"
                /\ trace' = Append(trace, Event("getattr_raised", table_name,
                                                rIdx))
                /\ UNCHANGED <<validator, rIdx>>
           ELSE /\ validator' =
                      [validator EXCEPT !.expectations =
                           @ \cup {<<table_name, rIdx>>}]
                /\ trace' = Append(trace, Event("rule", table_name, rIdx))
                /\ rIdx' = NextRule(rIdx)
                /\ UNCHANGED <<pc, failedAt>>
    /\ UNCHANGED <<dbRows, suites, conn, df, rowIdx, grouped, tIdx, assets,
                   checkpoints>>

\* where the loop body continues once get_validator has returned and the
\* rules are skipped over
AfterRulesGuardNone == pc = "rules"

\* line 118 is exhausted
AfterRulesGuard == pc = "rules" /\ rIdx > Len(expectation_functions)

\* line 121
SaveExpectationSuite ==
    /\ AfterRulesGuard
    /\ suites' = [suites EXCEPT ![validator.suite] = validator.expectations]
    /\ trace' = LogT("save_expectation_suite")
    /\ pc' = "add_or_update_checkpoint"
    /\ UNCHANGED <<dbRows, conn, df, rowIdx, grouped, tIdx, rIdx, validator,
                   assets, checkpoints, failedAt>>

\* lines 123-125
AddOrUpdateCheckpoint ==
    /\ pc = "add_or_update_checkpoint"
    /\ checkpoints' = checkpoints \cup {checkpoint_name(table_name)}
    /\ trace' = LogT("add_or_update_checkpoint")
    /\ pc' = "checkpoint_run"
    /\ UNCHANGED <<dbRows, suites, conn, df, rowIdx, grouped, tIdx, rIdx,
                   validator, assets, failedAt>>

\* line 126
CheckpointRun ==
    /\ pc = "checkpoint_run"
    /\ trace' = LogT("checkpoint_run")
    /\ pc' = "validate"
    /\ UNCHANGED <<dbRows, suites, conn, df, rowIdx, grouped, tIdx, rIdx,
                   validator, assets, checkpoints, failedAt>>

\* line 128: the outcome depends on the data of the table
Validate ==
    /\ pc = "validate"
    /\ \E success \in BOOLEAN :
          validator' = [validator EXCEPT !.result =
                            IF success THEN "passed" ELSE "failed"]
    /\ trace' = LogT("validate")
    /\ pc' = "build_data_docs"
    /\ UNCHANGED <<dbRows, suites, conn, df, rowIdx, grouped, tIdx, rIdx,
                   assets, checkpoints, failedAt>>

\* lines 134-135
BuildDataDocs ==
    /\ pc = "build_data_docs"
    /\ trace' = Append(LogT("build_data_docs"),
                       Event("open_data_docs", table_name, 0))
    /\ pc' = "print"
    /\ UNCHANGED <<dbRows, suites, conn, df, rowIdx, grouped, tIdx, rIdx,
                   validator, assets, checkpoints, failedAt>>

\* lines 137-139, then the next table of line 99
PrintResult ==
    /\ pc = "print"
    /\ trace' = LogT(IF validator.result = "passed"
                     THEN "print_passed" ELSE "print_failed")
    /\ tIdx' = tIdx + 1
    /\ pc' = "add_table_asset"
    /\ UNCHANGED <<dbRows, suites, conn, df, rowIdx, grouped, rIdx,
                   validator, assets, checkpoints, failedAt>>

\* line 99 is exhausted: monitor_all_tables returns
Finish ==
    /\ pc = "add_table_asset"
    /\ ~InLoop
    /\ pc' = "done"
    /\ trace' = Log("return")
    /\ UNCHANGED <<dbRows, suites, conn, df, rowIdx, grouped, tIdx, rIdx,
                   validator, assets, checkpoints, failedAt>>

\* the calls of the loop body that are not inside a try statement
FailableSteps ==
    {"add_table_asset", "get_validator", "rules", "save_expectation_suite",
     "add_or_update_checkpoint", "checkpoint_run", "validate",
     "build_data_docs"}

\* the call the run is about to make
NextCall ==
    IF AfterRulesGuard THEN "save_expectation_suite" ELSE pc

\* a call of the loop body raises, and the loop goes on with the next table
StepRaisesNextTable ==
    /\ pc \in FailableSteps
    /\ pc = "add_table_asset" => InLoop
    /\ pc' = "add_table_asset"
    /\ tIdx' = tIdx + 1
    /\ failedAt' = NextCall
    /\ trace' = LogT("raised")
    /\ UNCHANGED <<dbRows, suites, conn, df, rowIdx, grouped, rIdx,
                   validator, assets, checkpoints>>

\* lines 99-139: a call of the loop body raises; nothing catches it
StepRaises ==
    /\ pc \in FailableSteps
    /\ pc = "add_table_asset" => InLoop
    /\ pc' = "failed"
    /\ failedAt' = NextCall
    /\ trace' = LogT("raised")
    /\ UNCHANGED <<dbRows, suites, conn, df, rowIdx, grouped, tIdx, rIdx,
                   validator, assets, checkpoints>>

(***************************************************************************)
(* The run of the program                                                  *)
(***************************************************************************)
RuleIdle ==
    /\ rpc = "idle"
    /\ rule = build_expectation_function("", ColNull, PNone)
    /\ calls = <<>>
    /\ applications = 0

Init ==
    /\ RuleIdle
    /\ pc = "get_context"
    /\ dbRows \in RowSeqs
    /\ suites \in SuiteStores
    /\ conn = "unopened"
    /\ df = <<>>
    /\ rowIdx = 1
    /\ grouped = <<>>
    /\ tIdx = 1
    /\ rIdx = 1
    /\ validator = NoValidator
    /\ assets = {}
    /\ checkpoints = {}
    /\ trace = <<>>
    /\ failedAt = "none"

Next ==
    \/ (GetContext /\ UNCHANGED rvars)
    \/ (Connect /\ UNCHANGED rvars)
    \/ (ConnectFails /\ UNCHANGED rvars)
    \/ (ReadSql /\ UNCHANGED rvars)
    \/ (ReadSqlFails /\ UNCHANGED rvars)
    \/ (Close /\ UNCHANGED rvars)
    \/ (GroupRow /\ UNCHANGED rvars)
    \/ (ReturnGrouped /\ UNCHANGED rvars)
    \/ (AddTableAsset /\ UNCHANGED rvars)
    \/ (GetExpectationSuite /\ UNCHANGED rvars)
    \/ (GetValidator /\ UNCHANGED rvars)
    \/ (ApplyRule /\ UNCHANGED rvars)
    \/ (SaveExpectationSuite /\ UNCHANGED rvars)
    \/ (AddOrUpdateCheckpoint /\ UNCHANGED rvars)
    \/ (CheckpointRun /\ UNCHANGED rvars)
    \/ (Validate /\ UNCHANGED rvars)
    \/ (BuildDataDocs /\ UNCHANGED rvars)
    \/ (PrintResult /\ UNCHANGED rvars)
    \/ (Finish /\ UNCHANGED rvars)
    \/ (StepRaises /\ UNCHANGED rvars)

Spec == Init /\ [][Next]_vars

\* the interpreter runs the script to its end or to an uncaught exception
FairSpec == Spec /\ WF_vars(Next)

(***************************************************************************)
(* build_expectation_function on its own: a rule is translated, then the   *)
(* closure is applied to a validator                                       *)
(***************************************************************************)
ProgramIdle ==
    /\ pc = "idle"
    /\ dbRows = <<>>
    /\ suites = [n \in {} |-> {}]
    /\ conn = "unopened"
    /\ df = <<>>
    /\ rowIdx = 1
    /\ grouped = <<>>
    /\ tIdx = 1
    /\ rIdx = 1
    /\ validator = NoValidator
    /\ assets = {}
    /\ checkpoints = {}
    /\ trace = <<>>
    /\ failedAt = "none"

InitRule ==
    /\ ProgramIdle
    /\ rpc = "start"
    /\ rule = build_expectation_function("", ColNull, PNone)
    /\ calls = <<>>
    /\ applications = 0

\* line 13 and line 30
BuildRule ==
    /\ rpc = "start"
    /\ \E e \in ExpectationTypes, c \in ColumnNames, p \in ParamValues :
          rule' = build_expectation_function(e, c, p)
    /\ rpc' = "built"
    /\ UNCHANGED <<calls, applications>>

\* lines 14-28: func(validator)
ApplyClosure ==
    /\ rpc = "built"
    /\ applications < MaxApply
    /\ LET r == expectation_func(rule, ValidatorMethods)
       IN  /\ calls' = calls \o r.calls
           /\ rpc' = IF r.raised THEN "raised" ELSE "built"
    /\ applications' = applications + 1
    /\ UNCHANGED rule

NextRuleSpec ==
    \/ (BuildRule /\ UNCHANGED pvars)
    \/ (ApplyClosure /\ UNCHANGED pvars)

SpecRule == InitRule /\ [][NextRuleSpec]_vars

(***************************************************************************)
(* Claims about build_expectation_function (checked under SpecRule)        *)
(***************************************************************************)
HasColumnList == "column_list" \in DOMAIN rule.params.d

\* the column argument of an invocation has the shape its rule asks for
ShapeOf(c) ==
    /\ c.method = rule.expectation_type
    /\ DOMAIN c.kwargs = DOMAIN rule.params.d \cup {"result_format"}
    /\ IF HasColumnList
       THEN /\ c.args = <<>>
            /\ c.kwargs["column_list"] = rule.params.d["column_list"]
       ELSE IF ColTruthy(rule.column_name)
       THEN c.args = <<rule.column_name.name>>
       ELSE c.args = <<>>

OncePerApplication ==
    rpc = "built" => Len(calls) = applications

\* C1 as stated: each application of the closure makes exactly one
\* invocation of the method named expectation_type, in the column_list
\* shape, the column shape or the bare shape, and every key of params other
\* than column_list is passed through unchanged as a keyword.
C1_AsStated ==
    /\ OncePerApplication
    /\ \A i \in 1..Len(calls) :
          /\ ShapeOf(calls[i])
          /\ \A k \in DOMAIN rule.params.d \ {"column_list"} :
                calls[i].kwargs[k] = rule.params.d[k]

\* C1 amended: as above, but the keys passed through unchanged are those
\* other than column_list and result_format; result_format is always passed
\* as "COMPLETE".
C1_Shapes ==
    /\ OncePerApplication
    /\ \A i \in 1..Len(calls) :
          /\ ShapeOf(calls[i])
          /\ \A k \in DOMAIN rule.params.d \ {"column_list", "result_format"} :
                calls[i].kwargs[k] = rule.params.d[k]
          /\ calls[i].kwargs["result_format"] = COMPLETE

\* a rule with a column_list, a non-empty column name and one more key has
\* been applied
C1_Witness ==
    /\ rpc = "built"
    /\ Len(calls) = 1
    /\ HasColumnList
    /\ ColTruthy(rule.column_name)
    /\ "min_value" \in DOMAIN rule.params.d
    /\ calls[1].args = <<>>

\* C8: every invocation carries result_format = "COMPLETE", whatever the
\* shape and whatever params holds (a result_format of the rule included);
\* applying the closure leaves the rule's params as they were, and two
\* applications make two identical invocations.
C8_ResultFormat ==
    /\ [](\A i \in 1..Len(calls) :
             /\ "result_format" \in DOMAIN calls[i].kwargs
             /\ calls[i].kwargs["result_format"] = COMPLETE)
    /\ [](\A i, j \in 1..Len(calls) : calls[i] = calls[j])
    /\ [][rpc = "built" => rule'.params = rule.params]_vars

\* a rule asking for result_format BASIC has been applied twice
C8_Witness ==
    /\ Len(calls) = 2
    /\ "result_format" \in DOMAIN rule.params.d
    /\ rule.params.d["result_format"] = JStr("BASIC")

(***************************************************************************)
(* Claims about load_config_from_snowflake (checked under Spec)            *)
(***************************************************************************)
HasEvent(op) == \E i \in 1..Len(trace) : trace[i].op = op
Count(op, t) ==
    Cardinality({i \in 1..Len(trace) : trace[i].op = op /\ trace[i].t = t})

LoaderReturned == HasEvent("return_grouped")
QueryFailed == HasEvent("read_sql_raised")
ConnectFailed == HasEvent("connect_raised")
LoaderRaised == failedAt \in {"connect", "json_loads"}

\* the fallback as the claim words it
ExpectedFallback ==
    <<<<TEST_DATES,
        <<[expectation_type |-> "expect_column_values_to_not_be_null",
           column_name |-> Col("ID"),
           params |-> PDict(EmptyDict)],
          [expectation_type |-> "expect_column_values_to_be_between",
           column_name |-> Col("EVENT_DATE"),
           params |-> PDict([min_value |-> JStr("2025-01-01"),
                             max_value |-> JStr("2025-12-02")])]>>>>>>

\* C2 as stated: a failure of opening the connection or of running the
\* query is caught, the loader does not raise, and it returns exactly the
\* fallback.
C2_AsStated ==
    (ConnectFailed \/ QueryFailed) =>
        /\ ~LoaderRaised
        /\ LoaderReturned => grouped = ExpectedFallback

\* C2 amended: a failure of running the query is caught, the loader does not
\* raise, and it returns exactly the fallback (one group TEST_DATES holding
\* the not-null rule on ID with empty params, then the between rule on
\* EVENT_DATE with its two bounds); a failure of opening the connection is
\* not caught and ends the run.
C2_Fallback ==
    /\ QueryFailed =>
          /\ ~LoaderRaised
          /\ ~LoaderReturned => pc \in {"close", "group"}
          /\ LoaderReturned => grouped = ExpectedFallback
    /\ ConnectFailed => (pc = "failed" /\ failedAt = "connect")

\* the query failed and the loader has returned
C2_Witness == QueryFailed /\ LoaderReturned /\ Len(grouped) = 1

RowsOf(t) == SelectSeq(df, LAMBDA r : r.table_name = t)

EmptyParamsCells == {SqlNull, Text(<<>>), Text(JsonEmptyObject)}

\* the rule a row stands for
RuleOfRow(r, f) ==
    /\ f.expectation_type = r.expectation_type
    /\ f.column_name = r.column_name
    /\ IF r.params_json \in EmptyParamsCells
       THEN f.params = PDict(EmptyDict)
       ELSE f.params = json_loads(r.params_json.text).val

RECURSIVE TotalRules(_)
TotalRules(g) ==
    IF g = <<>> THEN 0 ELSE Len(g[1][2]) + TotalRules(Tail(g))

\* C3: the mapping the loader returns has one key per distinct table_name
\* of the rows, under each key one closure per row of that table in the
\* rows' order, and as many closures in all as there are rows; a row whose
\* params_json is empty or null gives the rule of a row whose params_json
\* is "{}".
C3_Grouping ==
    LoaderReturned =>
        /\ Keys(grouped) = {df[i].table_name : i \in 1..Len(df)}
        /\ \A i, j \in 1..Len(grouped) :
              grouped[i][1] = grouped[j][1] => i = j
        /\ \A t \in Keys(grouped) :
              /\ Len(Get(grouped, t)) = Len(RowsOf(t))
              /\ \A k \in 1..Len(RowsOf(t)) :
                    RuleOfRow(RowsOf(t)[k], Get(grouped, t)[k])
        /\ TotalRules(grouped) = Len(df)

\* two different rows of one table, one of them with a null params_json,
\* have been grouped
C3_Witness ==
    /\ LoaderReturned
    /\ ~QueryFailed
    /\ Len(df) = 2
    /\ Len(grouped) = 1
    /\ df[1] # df[2]
    /\ \E i \in 1..2 : df[i].params_json = SqlNull

\* C9: an opened connection is closed exactly once, on the success path and
\* on the fallback path, before any row is grouped or any closure is built;
\* the loader neither returns nor raises with the connection open.
C9_ConnectionClosed ==
    /\ Count("close", NoTable) <= 1
    /\ conn = "open" => pc \in {"read_sql", "close"}
    /\ LoaderReturned =>
          (conn = "closed" /\ Count("close", NoTable) = 1
                           /\ Count("connect", NoTable) = 1)
    /\ pc = "failed" => conn # "open"
    /\ failedAt = "connect" => conn = "unopened"
    /\ \A i \in 1..Len(trace) :
          trace[i].op \in {"build_expectation_function", "json_loads_raised"}
              => \E j \in 1..(i - 1) : trace[j].op = "close"

\* the query succeeded, the connection is closed and rows have been grouped
C9_Witness ==
    /\ LoaderReturned
    /\ ~QueryFailed
    /\ conn = "closed"
    /\ Len(grouped) = 2

(***************************************************************************)
(* Claims about monitor_all_tables (checked under Spec and FairSpec)       *)
(***************************************************************************)
LoopOps ==
    {"add_table_asset", "get_expectation_suite",
     "get_expectation_suite_raised", "add_expectation_suite", "get_validator",
     "rule", "save_expectation_suite", "add_or_update_checkpoint",
     "checkpoint_run", "validate", "build_data_docs", "open_data_docs",
     "print_passed", "print_failed"}

PrintOps == {"print_passed", "print_failed"}

\* the calls of the loop body made for table t, in order
LoopTrace(t) ==
    SelectSeq(trace, LAMBDA e : e.t = t /\ e.op \in LoopOps)

\* the order the claim gives, for a table of n rules
ExpectedOps(n, created) ==
    <<"add_table_asset">>
    \o (IF created
        THEN <<"get_expectation_suite_raised", "add_expectation_suite">>
        ELSE <<"get_expectation_suite">>)
    \o <<"get_validator">>
    \o [i \in 1..n |-> "rule"]
    \o <<"save_expectation_suite", "add_or_update_checkpoint",
         "checkpoint_run", "validate", "build_data_docs", "open_data_docs",
         "print">>

OpName(e) == IF e.op \in PrintOps THEN "print" ELSE e.op

IsPrefixOps(tr, ops) ==
    /\ Len(tr) <= Len(ops)
    /\ \A k \in 1..Len(tr) : OpName(tr[k]) = ops[k]

\* the rule calls of table t carry the indices 1, 2, ... in order
RulesInOrder(t) ==
    LET rs == SelectSeq(trace, LAMBDA e : e.t = t /\ e.op = "rule")
    IN  \A k \in 1..Len(rs) : rs[k].i = k

\* C4: for each table the calls are made in the order asset, suite,
\* validator, all rules, save, checkpoint, checkpoint run, validate, docs,
\* print; the suite is never saved and the checkpoint never run with a rule
\* still unapplied, and the result is printed after the checkpoint has run.
C4_StepOrder ==
    \A g \in 1..Len(grouped) :
        LET t == grouped[g][1]
            n == Len(grouped[g][2])
        IN  /\ \E created \in BOOLEAN :
                  IsPrefixOps(LoopTrace(t), ExpectedOps(n, created))
            /\ RulesInOrder(t)
            /\ Count("save_expectation_suite", t) > 0 => Count("rule", t) = n
            /\ Count("checkpoint_run", t) > 0 => Count("rule", t) = n
            /\ (Count("print_passed", t) + Count("print_failed", t) > 0)
                  => Count("checkpoint_run", t) = 1

\* a table of two rules has gone through all its steps
C4_Witness ==
    /\ Len(grouped) = 1
    /\ Len(grouped[1][2]) = 2
    /\ Count("print_failed", grouped[1][1]) = 1

Printed(t) == Count("print_passed", t) + Count("print_failed", t)

ExactlyOnce ==
    /\ Count("connect", NoTable) = 1
    /\ Count("read_sql", NoTable) + Count("read_sql_raised", NoTable) = 1
    /\ Count("return_grouped", NoTable) = 1
    /\ \A g \in 1..Len(grouped) :
          LET t == grouped[g][1]
          IN  /\ Count("add_table_asset", t) = 1
              /\ Count("get_validator", t) = 1
              /\ Count("save_expectation_suite", t) = 1
              /\ Count("checkpoint_run", t) = 1
              /\ Printed(t) = 1
              /\ \A i \in 1..Len(grouped[g][2]) :
                    Cardinality({k \in 1..Len(trace) :
                                    trace[k] = Event("rule", t, i)}) = 1
    /\ trace[Len(trace)].op = "return"
    /\ Len(grouped) > 0 =>
          trace[Len(trace) - 1].op \in PrintOps
          /\ trace[Len(trace) - 1].t = grouped[Len(grouped)][1]

\* C5: the run ends, in a return or in an uncaught exception; when it ends
\* in a return the configuration has been loaded once, every table has been
\* processed once, every rule of every table has been applied once, and
\* the return follows the last table.
C5_LinearPass ==
    /\ [](pc = "done" => ExactlyOnce)
    /\ <>(pc \in {"done", "failed"})

\* a run over two tables has returned
C5_Witness == pc = "done" /\ Len(grouped) = 2

\* C6: two distinct table groups have distinct suite, asset and checkpoint
\* names, and no stored suite holds rules of two tables.
C6_OneSuitePerTable ==
    /\ \A i, j \in 1..Len(grouped) :
          i # j =>
             /\ suite_name(grouped[i][1]) # suite_name(grouped[j][1])
             /\ asset_name(grouped[i][1]) # asset_name(grouped[j][1])
             /\ checkpoint_name(grouped[i][1]) # checkpoint_name(grouped[j][1])
    /\ \A n \in DOMAIN suites :
          \A e1, e2 \in suites[n] \ PreviousRun : e1[1] = e2[1]

AddEventLogged ==
    /\ Len(trace') > Len(trace)
    /\ trace'[Len(trace')].op = "add_expectation_suite"

\* C7: when the validator is obtained the suite of the table exists; the
\* suite is created exactly when the lookup failed, a suite that exists is
\* neither created again nor replaced, and the lookup never ends the run.
C7_CatchAndCreate ==
    /\ [](pc = "get_validator" => suite_name(table_name) \in DOMAIN suites)
    /\ [](validator.bound => validator.suite \in DOMAIN suites)
    /\ [](failedAt # "get_expectation_suite")
    /\ [][pc = "get_expectation_suite" =>
            /\ pc' = "get_validator"
            /\ AddEventLogged <=> suite_name(table_name) \notin DOMAIN suites
            /\ DOMAIN suites' = DOMAIN suites \cup {suite_name(table_name)}
            /\ \A n \in DOMAIN suites : suites'[n] = suites[n]
            /\ suite_name(table_name) \notin DOMAIN suites =>
                  suites'[suite_name(table_name)] = {}]_vars

\* one run has found a suite in the store and has created another
C7_Witness ==
    /\ HasEvent("get_expectation_suite")
    /\ HasEvent("add_expectation_suite")
    /\ pc = "rules"

RaiseOps == {"raised", "getattr_raised"}

\* C10: a failing call of the loop body ends the run there: nothing is
\* called after it, the remaining rules of the table are not applied, its
\* suite is not saved after the failure, nothing is printed for it, no later
\* table is touched, and the tables completed before keep their saved suites
\* and printed results.
C10_NoRecovery ==
    /\ [][pc # "failed"]_vars
    /\ [](failedAt # "none" => pc = "failed")
    /\ []((pc = "failed" /\ failedAt \in FailableSteps \cup {"getattr"}) =>
            /\ trace[Len(trace)].op \in RaiseOps
            /\ \A k \in 1..(Len(trace) - 1) : trace[k].op \notin RaiseOps
            /\ Printed(table_name) = 0
            /\ failedAt \in {"add_table_asset", "get_validator", "rules",
                             "getattr", "save_expectation_suite"}
                  => Count("save_expectation_suite", table_name) = 0
            /\ failedAt \in {"rules", "getattr"} =>
                  /\ Count("rule", table_name) = rIdx - 1
                  /\ rIdx <= Len(expectation_functions)
            /\ \A g \in (tIdx + 1)..Len(grouped) :
                  LoopTrace(grouped[g][1]) = <<>>
            /\ \A g \in 1..(tIdx - 1) :
                  /\ Printed(grouped[g][1]) = 1
                  /\ Count("save_expectation_suite", grouped[g][1]) = 1
                  /\ \A i \in 1..Len(grouped[g][2]) :
                        <<grouped[g][1], i>>
                            \in suites[suite_name(grouped[g][1])])

\* the second table of a run names a method the validator does not have,
\* after the first table has been completed
C10_Witness ==
    /\ pc = "failed"
    /\ failedAt = "getattr"
    /\ tIdx = 2
    /\ Printed(grouped[1][1]) = 1

====
